---- MODULE Spec2Model ----
(***************************************************************************)
(* A model of the goodminton court finder: the chat-bot search             *)
(* (api/index.py, find_courts_logic) and the command-line search           *)
(* (finder.py, find_games).  Both load the metro stations, parse the time  *)
(* window, POST one listing request, scan the raw activities into venue    *)
(* groups, sort the groups by distance to the nearest station and render.  *)
(*                                                                         *)
(* JSON values are modelled as pairs <<tag, n>>:                           *)
(*   <<"missing",0>>  the key is not in the object                         *)
(*   <<"null",0>>     JSON null (Python None)                              *)
(*   <<"num",n>>      the number n                                         *)
(*   <<"str",n>>      a non-empty text that is neither a number nor a date *)
(*   <<"numstr",n>>   a text spelling the number n                         *)
(*   <<"iso",t>>      an ISO-8601 text for the UTC instant t (in seconds)  *)
(* Coordinates lie on one meridian, in whole degrees of latitude, so that  *)
(* the haversine distance is the absolute latitude difference (in units of *)
(* R*pi/180 km).  Instants are seconds since 00:00 UTC of day 0.           *)
(***************************************************************************)
EXTENDS Integers, Sequences, FiniteSets, TLC

\* ------------------------------------------------------------------ bounds
\* Longest raw activity list drawn from the mixed record set.
MaxLen == 2
\* Longest raw activity list of the many-venues family (one venue per record).
MaxMany == 11
\* Longest station list handed to find_nearest_metro on its own.
MaxStations == 3
\* Number of calls of save_user_location in one run.
MaxSaves == 3

\* ------------------------------------------------------- program constants
\* float('inf')
Inf == 1000000
\* matching_venues[:10]
MaxDisplay == 10
\* the default timezone "Asia/Kolkata" is UTC+05:30
TzOffset == 5 * 3600 + 30 * 60

Day == 24 * 3600

\* ------------------------------------------------------------- JSON values
Missing == <<"missing", 0>>
Null == <<"null", 0>>
Num(n) == <<"num", n>>
Str(n) == <<"str", n>>
NumStr(n) == <<"numstr", n>>
Iso(t) == <<"iso", t>>

\* dict.get(key): None when the key is absent
Get(activity, key) == IF activity[key] = Missing THEN Null ELSE activity[key]

\* dict.get(key, default)
GetDefault(activity, key, default) ==
    IF activity[key] = Missing THEN default ELSE activity[key]

\* Python truth value of a JSON value
Truthy(v) ==
    \/ v[1] \in {"str", "numstr", "iso"}
    \/ v[1] = "num" /\ v[2] # 0

\* The exception raised by activity[key] followed by parser.isoparse, "" if none
IsoparseError(v) ==
    CASE v[1] = "missing" -> "KeyError"
      [] v[1] = "iso" -> ""
      [] v[1] \in {"str", "numstr"} -> "ValueError"
      [] OTHER -> "TypeError"

\* The exception raised by float(activity[key]), "" if none
FloatError(v) ==
    CASE v[1] = "missing" -> "KeyError"
      [] v[1] \in {"num", "numstr"} -> ""
      [] v[1] \in {"str", "iso"} -> "ValueError"
      [] OTHER -> "TypeError"

\* The exception raised by math.radians(v), "" if none
RadiansError(v) == IF v[1] = "num" THEN "" ELSE "TypeError"

\* The exception raised by  v > 1, "" if none
CompareError(v) == IF v[1] = "num" THEN "" ELSE "TypeError"

\* ------------------------------------------------------------------- time
\* datetime.astimezone(local_tz): the local wall clock of a UTC instant
AsLocal(t) == t + TzOffset

\* local_tz.localize(naive).astimezone(pytz.utc): the UTC instant of a wall clock
AsUtc(wall) == wall - TzOffset

\* datetime.time(): seconds since local midnight
TimeOfDay(wall) == wall % Day

\* datetime.date(): the day number
DateOf(wall) == wall \div Day

\* strftime('%H:%M'): hour and minute, seconds dropped
StrfHM(wall) == <<TimeOfDay(wall) \div 3600, (TimeOfDay(wall) % 3600) \div 60>>

\* strftime('%I:%M %p'): 12-hour clock, minute, AM/PM
StrfIMp(wall) ==
    LET h == TimeOfDay(wall) \div 3600
        m == (TimeOfDay(wall) % 3600) \div 60
    IN  <<IF h % 12 = 0 THEN 12 ELSE h % 12, m, IF h < 12 THEN "AM" ELSE "PM">>

\* strftime("%Y-%m-%dT%H:%M:%S.%fZ"): the clock fields of the value it is given
StrfToken(wall) == <<DateOf(wall), TimeOfDay(wall), "Z">>

\* datetime.strptime(text, "%H:%M").time(): texts are <<"time", h, m>> or not a time
TimeText(h, m) == <<"time", h, m>>
BadText == <<"text", 0, 0>>
DateText(d) == <<"date", d, 0>>
StrptimeFails(text, kind) == text[1] # kind
ParseTime(text) == text[2] * 3600 + text[3] * 60
ParseDate(text) == text[2]

\* --------------------------------------------------------------- distance
Abs(x) == IF x < 0 THEN -x ELSE x

\* Haversine distance of two points of one meridian: R * |dlat|
calculate_haversine_distance(lat1, lon1, lat2, lon2) == Abs(lat2 - lat1)

\* Mutant: a later station at the same distance replaces the earlier one
CloserOrEqual(dist, min_dist) == dist <= min_dist

\* if dist < min_dist
Closer(dist, min_dist) == dist < min_dist

\* The loop of find_nearest_metro over stations[i..], carrying (name, min_dist)
RECURSIVE NearestLoop(_, _, _, _, _)
NearestLoop(venue_lat, venue_lng, stations, i, best) ==
    IF i > Len(stations) THEN best
    ELSE LET dist == calculate_haversine_distance(venue_lat, venue_lng,
                                                  stations[i].lat, stations[i].lng)
         IN  NearestLoop(venue_lat, venue_lng, stations, i + 1,
                         IF Closer(dist, best[2]) THEN <<Str(stations[i].name), dist>> ELSE best)

find_nearest_metro(venue_lat, venue_lng, stations) ==
    IF stations = <<>> THEN <<Null, Inf>>
    ELSE NearestLoop(venue_lat, venue_lng, stations, 1, <<Null, Inf>>)
\* ------------------------------------------------------------ the scan step
\* except (KeyError, ValueError, TypeError) around one record in find_courts_logic
BotCaught == {"KeyError", "ValueError", "TypeError"}

\* except (KeyError, ValueError) around the two isoparse calls in find_games
CliCaught == {"KeyError", "ValueError"}

\* Position of the slot with this grouping key in the insertion-ordered dict, 0 if none
KeyIndex(groups, key) ==
    IF \E k \in 1..Len(groups) : groups[k].key = key
    THEN CHOOSE k \in 1..Len(groups) : groups[k].key = key
    ELSE 0

\* Mutant: the count of every slot goes up, not only the slot of the key
IncrementEvery(groups, k) ==
    [j \in 1..Len(groups) |-> [groups[j] EXCEPT !.court_count = groups[j].court_count + 1]]

\* grouped_venues[grouping_key]["court_count"] += 1
Increment(groups, k) ==
    [groups EXCEPT ![k].court_count = groups[k].court_count + 1]

Skipped(groups) == [outcome |-> "skipped", groups |-> groups]
Counted(groups) == [outcome |-> "counted", groups |-> groups]
Raised(groups, exc) == [outcome |-> exc, groups |-> groups]

\* activity.get("joineeCount", 0) > 1
JoineeExceeds(joinee) == joinee[2] > 1

\* Mutant: a start exactly at desired_end is left out
InWindowHalfOpen(wall, ds, de) == ds <= TimeOfDay(wall) /\ TimeOfDay(wall) < de

\* desired_start <= start_time_local.time() <= desired_end
InWindow(wall, ds, de) == ds <= TimeOfDay(wall) /\ TimeOfDay(wall) <= de

\* The try block of one record in find_courts_logic: "" or the exception raised
BotTry(groups, activity, i, stations, ds, de) ==
    LET wall == AsLocal(activity.startTime[2])
        venue_id == IF Truthy(Get(activity, "venueId"))
                    THEN Get(activity, "venueId") ELSE Get(activity, "venueIdAlt")
        near == find_nearest_metro(activity.lat[2], activity.lng[2], stations)
        key == <<venue_id, StrfHM(wall)>>
        k == KeyIndex(groups, key)
        slot == [key |-> key, venue_name |-> activity.venueName,
                 start_time |-> StrfIMp(wall), venue_id |-> venue_id,
                 nearest_metro |-> near[1], distance_to_metro |-> near[2],
                 court_count |-> 1, first |-> i]
    IN  IF IsoparseError(activity.startTime) # ""
        THEN Raised(groups, IsoparseError(activity.startTime))
        ELSE IF ~InWindow(wall, ds, de) THEN Skipped(groups)
        ELSE IF ~Truthy(venue_id) THEN Skipped(groups)
        ELSE IF FloatError(activity.lat) # "" THEN Raised(groups, FloatError(activity.lat))
        ELSE IF FloatError(activity.lng) # "" THEN Raised(groups, FloatError(activity.lng))
        ELSE IF k # 0 THEN Counted(Increment(groups, k))
        ELSE IF activity.venueName = Missing THEN Raised(groups, "KeyError")
        ELSE Counted(Append(groups, slot))

\* One iteration of the for loop of find_courts_logic
BotStep(groups, activity, i, stations, ds, de) ==
    LET joinee == GetDefault(activity, "joineeCount", Num(0))
        tried == BotTry(groups, activity, i, stations, ds, de)
    IN  IF ~activity.isdict THEN Skipped(groups)
        ELSE IF ~Truthy(Get(activity, "lat")) \/ ~Truthy(Get(activity, "lng"))
        THEN Skipped(groups)
        ELSE IF Get(activity, "type") # Num(0) THEN Skipped(groups)
        ELSE IF CompareError(joinee) # "" THEN Raised(groups, CompareError(joinee))
        ELSE IF JoineeExceeds(joinee) THEN Skipped(groups)
        ELSE IF tried.outcome \in BotCaught THEN Skipped(groups)
        ELSE tried

\* is_time_match of find_games; today_start is start_datetime_local
IsTimeMatch(wall, today_start, de) == wall >= today_start /\ TimeOfDay(wall) <= de

\* One iteration of the for loop of find_games (verbose off)
CliStep(groups, activity, i, stations, today_start, de) ==
    LET e1 == IF ~activity.isdict THEN "TypeError" ELSE IsoparseError(activity.startTime)
        e2 == IsoparseError(activity.endTime)
        exc == IF e1 # "" THEN e1 ELSE e2
        wall == AsLocal(activity.startTime[2])
        wall_end == AsLocal(activity.endTime[2])
        venue_id == Get(activity, "venueId")
        key == <<venue_id, Get(activity, "startTime"), Get(activity, "endTime")>>
        k == KeyIndex(groups, key)
        venue_lat == Get(activity, "lat")
        venue_lng == Get(activity, "lng")
        near == find_nearest_metro(venue_lat[2], venue_lng[2], stations)
        slot == [key |-> key,
                 venue_name |-> GetDefault(activity, "venueName", Str(0)),
                 start_time |-> StrfIMp(wall), end_time |-> StrfIMp(wall_end),
                 venue_id |-> venue_id,
                 nearest_metro |-> near[1], distance_to_metro |-> near[2],
                 court_count |-> 1, first |-> i]
    IN  IF exc \in CliCaught THEN Skipped(groups)
        ELSE IF exc # "" THEN Raised(groups, exc)
        ELSE IF ~IsTimeMatch(wall, today_start, de) THEN Skipped(groups)
        ELSE IF k # 0 THEN Counted(Increment(groups, k))
        ELSE IF RadiansError(venue_lat) # "" THEN Raised(groups, RadiansError(venue_lat))
        ELSE IF RadiansError(venue_lng) # "" THEN Raised(groups, RadiansError(venue_lng))
        ELSE Counted(Append(groups, slot))

\* Mutant: an unstable sort that lets a later element overtake an equal one
StaysBeforeStrict(earlier, later) == earlier < later

\* The order of sorted(): an earlier element stays before a later one unless the
\* later one's key is strictly smaller
StaysBefore(earlier, later) == earlier <= later

\* sorted(..., key=lambda x: x['distance_to_metro']): stable insertion sort
RECURSIVE InsertSorted(_, _)
InsertSorted(sorted, slot) ==
    IF sorted = <<>> THEN <<slot>>
    ELSE IF StaysBefore(sorted[Len(sorted)].distance_to_metro, slot.distance_to_metro)
         THEN Append(sorted, slot)
         ELSE Append(InsertSorted(SubSeq(sorted, 1, Len(sorted) - 1), slot),
                     sorted[Len(sorted)])

RECURSIVE SortByDistance(_)
SortByDistance(slots) ==
    IF slots = <<>> THEN <<>>
    ELSE InsertSorted(SortByDistance(SubSeq(slots, 1, Len(slots) - 1)), slots[Len(slots)])

\* matching_venues[:10]
Top(slots, n) == SubSeq(slots, 1, IF Len(slots) < n THEN Len(slots) ELSE n)
\* ---------------------------------------------------------------- inputs
\* metro_stations.json as shipped: two stations two degrees apart
Station(name, lat) == [name |-> name, lat |-> lat, lng |-> 77]
StationFile == <<Station(1, 11), Station(2, 13)>>

\* The clock of the command-line run: noon of local day 1, as a UTC instant
NowUtc == AsUtc(Day + 12 * 3600)

\* Start instants: 19:00, 19:00:30, 19:30 and 21:00 local time of day 1, and
\* 19:30 of the day before
T1 == AsUtc(Day + 19 * 3600)
T1s == T1 + 30
T2 == T1 + 30 * 60
TOut == T1 + 2 * 3600
TPrev == T2 - Day

\* Start instants around the edges of the window: 18:59:30, 20:00 and 20:00:30
TEarly == T1 - 30
TEnd == T1 + 3600
TEndS == TEnd + 30

\* A well-formed bookable record of venue v at latitude lat starting at t
Good(v, lat, t) ==
    [isdict |-> TRUE, lat |-> Num(lat), lng |-> Num(77), type |-> Num(0),
     joineeCount |-> Num(0), startTime |-> Iso(t), endTime |-> Iso(t + 3600),
     venueId |-> Str(v), venueIdAlt |-> Missing, venueName |-> Str(v)]

\* A list entry that is not a JSON object
NonDict ==
    [isdict |-> FALSE, lat |-> Missing, lng |-> Missing, type |-> Missing,
     joineeCount |-> Missing, startTime |-> Missing, endTime |-> Missing,
     venueId |-> Missing, venueIdAlt |-> Missing, venueName |-> Missing]

Base == Good(1, 12, T1)

GoodRecords ==
    {Base, Good(2, 14, T1), Good(3, 11, T1), Good(1, 12, T2), Good(1, 12, T1s),
     Good(1, 12, TOut), Good(1, 12, TPrev), [Base EXCEPT !.joineeCount = Num(1)]}

\* Records that an open, bookable, well-formed slot is not
OddRecords ==
    {[Base EXCEPT !.joineeCount = Num(2)],
     [Base EXCEPT !.joineeCount = Str(9)],
     [Base EXCEPT !.type = Num(1)],
     [Base EXCEPT !.lat = Missing],
     [Base EXCEPT !.lat = Num(0)],
     [Base EXCEPT !.lat = Str(9)],
     [Base EXCEPT !.startTime = Missing],
     [Base EXCEPT !.startTime = Str(9)],
     [Base EXCEPT !.startTime = Null],
     [Base EXCEPT !.endTime = Missing],
     [Base EXCEPT !.venueId = Missing, !.venueIdAlt = Str(1)],
     [Base EXCEPT !.venueId = Missing],
     [Base EXCEPT !.venueName = Missing],
     NonDict}

Records == GoodRecords \cup OddRecords

\* Every list of at most n records
ListsUpTo(S, n) == UNION {[1..m -> S] : m \in 0..n}

\* n venues, one record each at 19:00; the first j lie one degree from a station,
\* the others on a station
ManyList(n, j) == [k \in 1..n |-> Good(k, IF k <= j THEN 12 ELSE 11, T1)]
ManyLists == {ManyList(n, j) : n \in (MaxDisplay - 1)..MaxMany, j \in 0..2}

\* The listing API's answer: a failure, or a JSON body of one of the shapes
\*   top:         {"requestStatus": s, "data": [...]}
\*   nested:      {"requestStatus": s, "data": {"activities": [...]}}
\*   nested_null: {"requestStatus": s, "data": {"activities": null}}
\*   absent:      {"requestStatus": s}
Failure(kind) == [kind |-> kind, shape |-> "", requestStatus |-> 0, list |-> <<>>]
Json(shape, status, list) ==
    [kind |-> "json", shape |-> shape, requestStatus |-> status, list |-> list]

FailureKinds == {"network", "http", "notjson"}

GoodArgs ==
    [date |-> DateText(1), start |-> TimeText(19, 0), end |-> TimeText(20, 0),
     timezone |-> "known"]
BadArgs ==
    {[GoodArgs EXCEPT !.date = BadText], [GoodArgs EXCEPT !.start = BadText],
     [GoodArgs EXCEPT !.end = BadText]}

\* --timezone names no zone of the tz database, with a good and with a bad time.
\* Only find_games takes the name from its caller: telegram_webhook calls
\* find_courts_logic without it and the default is used.
UnknownZoneArgs ==
    {[GoodArgs EXCEPT !.timezone = "unknown"],
     [GoodArgs EXCEPT !.timezone = "unknown", !.start = BadText]}

\* Windows other than 19:00-20:00: one that ends before it starts, a single
\* minute, and one whose start falls on the day before in UTC
WindowArgs ==
    {GoodArgs,
     [GoodArgs EXCEPT !.start = TimeText(20, 0), !.end = TimeText(19, 0)],
     [GoodArgs EXCEPT !.end = TimeText(19, 0)],
     [GoodArgs EXCEPT !.start = TimeText(3, 0), !.end = TimeText(4, 0)]}

\* Well-formed records of one venue that start at, inside and just outside the edges
WindowRecords ==
    {Good(1, 12, TEarly), Base, Good(1, 12, T2), Good(1, 12, TEnd), Good(1, 12, TEndS)}

\* Records of two venues, and a second listing of venue 1 at the same time under
\* another name and at another place
RepeatRecords ==
    {Base, Good(2, 14, T1), [Base EXCEPT !.venueName = Str(5), !.lat = Num(14)]}

\* Chat ids of the users and the callers that may run save_user_location at once
ChatIds == {1, 2}
Callers == {1, 2}

\* str(chat_id), the key of a user in the stored dict
KeyOf(chat_id) == NumStr(chat_id)

\* {"lat": lat, "lng": lng}, and the absence of a key from the dict
Location(lat) == <<lat, 77>>
NoEntry == <<>>
Locations == {Location(12), Location(13)}

\* {}: the dict get_user_locations returns when there is no blob or the read fails
EmptyDict == [key \in {KeyOf(id) : id \in ChatIds} |-> NoEntry]

IdleSave == [pc |-> "idle", chat_id |-> 0, location |-> NoEntry, locations |-> EmptyDict]

NoToken == <<0, 0, "">>
NoResult == [kind |-> "", slots |-> <<>>, date |-> BadText, start |-> BadText,
             end |-> BadText]
NoQuery == [stations |-> <<>>, lat |-> 0, called |-> FALSE, answer |-> <<Null, 0>>]

\* ----------------------------------------------------------------- state
VARIABLES
    pipeline,        \* "bot": find_courts_logic, "cli": find_games
    station_file,    \* metro_stations.json: "ok", "missing" or "corrupt"
    metro_stations,  \* the loaded station list
    args,            \* search_date_str, start_time_str, end_time_str
    desired_start,   \* parsed start of the window, seconds since midnight
    desired_end,     \* parsed end of the window
    response,        \* what the listing API answers to the POST
    posts,           \* number of POST requests issued
    payload_date,    \* the token sent in payload["date"]
    activities,      \* the list being scanned
    idx,             \* position of the scan in activities
    grouped_venues,  \* insertion-ordered dict of venue slots
    matching_venues, \* the sorted slots
    result,          \* what the entry point returns or prints
    pc,              \* "load", "parse", "request", "scan", "render", "done"
    query,           \* a stand-alone call of find_nearest_metro
    blob,            \* the dict stored in the blob user_locations.json
    saves,           \* the calls of save_user_location in flight, one per caller
    last_saved,      \* per chat id, the location of its last successful save
    started          \* number of calls of save_user_location begun

storage == <<blob, saves, last_saved, started>>

vars == <<pipeline, station_file, metro_stations, args, desired_start, desired_end,
          response, posts, payload_date, activities, idx, grouped_venues,
          matching_venues, result, pc, query, storage>>

\* No location stored and no save in flight
StorageIdle ==
    /\ blob = EmptyDict
    /\ saves = [c \in Callers |-> IdleSave]
    /\ last_saved = EmptyDict
    /\ started = 0

Fresh ==
    /\ metro_stations = <<>>
    /\ desired_start = 0
    /\ desired_end = 0
    /\ posts = 0
    /\ payload_date = NoToken
    /\ activities = <<>>
    /\ idx = 1
    /\ grouped_venues = <<>>
    /\ matching_venues = <<>>
    /\ result = NoResult
    /\ pc = "load"

\* Searches over short lists of mixed records, every envelope and every failure
InitMixed ==
    /\ pipeline \in {"bot", "cli"}
    /\ station_file \in {"ok", "missing", "corrupt"}
    /\ args = GoodArgs
    /\ response \in {Failure(k) : k \in FailureKinds}
                    \cup {Json(s, 1, l) : s \in {"top", "nested"},
                                          l \in ListsUpTo(Records, MaxLen)}
                    \cup {Json("absent", 1, <<>>), Json("nested_null", 1, <<>>),
                          Json("top", 0, <<>>)}

\* Searches that find many venues
InitMany ==
    /\ pipeline \in {"bot", "cli"}
    /\ station_file = "ok"
    /\ args = GoodArgs
    /\ response \in {Json(IF pipeline = "bot" THEN "nested" ELSE "top", 1, l) :
                        l \in ManyLists}

\* Searches whose date or time text does not parse or whose timezone is unknown
InitBadArgs ==
    /\ pipeline \in {"bot", "cli"}
    /\ station_file \in {"ok", "missing", "corrupt"}
    /\ args \in BadArgs \cup (IF pipeline = "cli" THEN UnknownZoneArgs ELSE {})
    /\ response = Json("absent", 1, <<>>)

\* Searches over records at the edges of the window, for several windows
InitWindow ==
    /\ pipeline \in {"bot", "cli"}
    /\ station_file = "ok"
    /\ args \in WindowArgs
    /\ response \in {Json(IF pipeline = "bot" THEN "nested" ELSE "top", 1, l) :
                        l \in ListsUpTo(WindowRecords, MaxLen)}

\* Searches in which a venue and time come up again after another venue
InitRepeat ==
    /\ pipeline \in {"bot", "cli"}
    /\ station_file = "ok"
    /\ args = GoodArgs
    /\ response \in {Json(IF pipeline = "bot" THEN "nested" ELSE "top", 1, l) :
                        l \in ListsUpTo(RepeatRecords, MaxLen + 1)}

Init ==
    /\ Fresh
    /\ query = NoQuery
    /\ StorageIdle
    /\ (InitMixed \/ InitMany \/ InitBadArgs \/ InitWindow \/ InitRepeat)
\* ---------------------------------------------------------------- actions
Finish(kind, slots) ==
    /\ result' = [kind |-> kind, slots |-> slots, date |-> args.date,
                  start |-> args.start, end |-> args.end]
    /\ pc' = "done"

\* json.load of metro_stations.json; FileNotFoundError and JSONDecodeError give []
load_metro_stations(file) == IF file = "ok" THEN StationFile ELSE <<>>

\* Mutant: the bot too returns when no station is loaded
StopsWithoutStationsAlways(p) == TRUE

\* if not metro_stations: return -- only find_games has it
StopsWithoutStations(p) == p = "cli"

\* load_metro_stations(), at import in the bot and first in find_games, which
\* returns at once when the list is empty
LoadStations ==
    /\ pc = "load"
    /\ metro_stations' = load_metro_stations(station_file)
    /\ IF StopsWithoutStations(pipeline) /\ metro_stations' = <<>>
       THEN Finish("stations_error", <<>>)
       ELSE pc' = "parse" /\ UNCHANGED result
    /\ UNCHANGED <<pipeline, station_file, args, desired_start, desired_end, response,
                   posts, payload_date, activities, idx, grouped_venues,
                   matching_venues, query, storage>>

\* The strptime calls that raise ValueError: date and both times in the bot,
\* the two times in find_games (which takes today's date from the clock)
ArgsInvalid ==
    \/ pipeline = "bot" /\ StrptimeFails(args.date, "date")
    \/ StrptimeFails(args.start, "time")
    \/ StrptimeFails(args.end, "time")

\* pytz.timezone(timezone) raises UnknownTimeZoneError; the call stands before
\* the strptime block and outside every try
TimezoneUnknown == args.timezone = "unknown"

ParseArgs ==
    /\ pc = "parse"
    /\ IF TimezoneUnknown
       THEN /\ Finish("exception", <<>>)
            /\ UNCHANGED <<desired_start, desired_end>>
       ELSE IF ArgsInvalid
       THEN /\ Finish("invalid_format", <<>>)
            /\ UNCHANGED <<desired_start, desired_end>>
       ELSE /\ desired_start' = ParseTime(args.start)
            /\ desired_end' = ParseTime(args.end)
            /\ pc' = "request"
            /\ UNCHANGED result
    /\ UNCHANGED <<pipeline, station_file, metro_stations, args, response, posts,
                   payload_date, activities, idx, grouped_venues, matching_venues,
                   query, storage>>

\* The date token: the bot renders the window's start in UTC, find_games
\* renders datetime.now(local_tz) with the same format string
DateToken ==
    IF pipeline = "bot"
    THEN StrfToken(AsUtc(ParseDate(args.date) * Day + desired_start))
    ELSE StrfToken(AsLocal(NowUtc))

\* Mutant: only requests.RequestException is caught, a body that is not JSON escapes
ListingCaughtRequestOnly == {"network", "http"}

\* except (requests.RequestException, json.JSONDecodeError) in both pipelines
ListingCaught == {"network", "http", "notjson"}

\* data.get("data", {}).get("activities", []): the list, or the exception raised
\* by the expression or by iterating what it yields
BotExtract(resp) ==
    CASE resp.shape = "nested" -> [exc |-> "", list |-> resp.list]
      [] resp.shape = "absent" -> [exc |-> "", list |-> <<>>]
      [] resp.shape = "top" -> [exc |-> "AttributeError", list |-> <<>>]
      [] OTHER -> [exc |-> "TypeError", list |-> <<>>]

\* data["data"] after the requestStatus test; iterating an object yields its keys
CliExtract(resp) ==
    CASE resp.requestStatus # 1 \/ resp.shape = "absent" ->
            [exc |-> "invalid", list |-> <<>>]
      [] resp.shape = "top" -> [exc |-> "", list |-> resp.list]
      [] OTHER -> [exc |-> "", list |-> <<NonDict>>]

Extract(resp) == IF pipeline = "bot" THEN BotExtract(resp) ELSE CliExtract(resp)

\* requests.post, raise_for_status, response.json() and the extraction of the list
Post ==
    /\ pc = "request"
    /\ posts' = posts + 1
    /\ payload_date' = DateToken
    /\ IF response.kind # "json"
       THEN /\ IF response.kind \in ListingCaught
               THEN Finish("api_error", <<>>)
               ELSE Finish("exception", <<>>)
            /\ UNCHANGED activities
       ELSE IF Extract(response).exc = ""
       THEN /\ activities' = Extract(response).list
            /\ pc' = "scan"
            /\ UNCHANGED result
       ELSE /\ IF Extract(response).exc = "invalid"
               THEN Finish("bad_response", <<>>)
               ELSE Finish("exception", <<>>)
            /\ UNCHANGED activities
    /\ UNCHANGED <<pipeline, station_file, metro_stations, args, desired_start,
                   desired_end, response, idx, grouped_venues, matching_venues, query, storage>>

\* start_datetime_local of find_games: today's date at desired_start
TodayStart == DateOf(AsLocal(NowUtc)) * Day + desired_start

Step(groups, activity, i) ==
    IF pipeline = "bot"
    THEN BotStep(groups, activity, i, metro_stations, desired_start, desired_end)
    ELSE CliStep(groups, activity, i, metro_stations, TodayStart, desired_end)

\* One record of the for loop.  An exception that the loop does not catch leaves
\* find_courts_logic; in find_games the outer except Exception prints it.
ScanStep ==
    /\ pc = "scan"
    /\ idx <= Len(activities)
    /\ LET done == Step(grouped_venues, activities[idx], idx)
       IN  IF done.outcome \in {"skipped", "counted"}
           THEN /\ grouped_venues' = done.groups
                /\ idx' = idx + 1
                /\ UNCHANGED <<result, pc>>
           ELSE /\ IF pipeline = "bot"
                   THEN Finish("exception", <<>>)
                   ELSE Finish("unexpected_error", <<>>)
                /\ UNCHANGED <<grouped_venues, idx>>
    /\ UNCHANGED <<pipeline, station_file, metro_stations, args, desired_start,
                   desired_end, response, posts, payload_date, activities,
                   matching_venues, query, storage>>

\* sorted(grouped_venues.values(), key=distance_to_metro) after the loop
Rank ==
    /\ pc = "scan"
    /\ idx > Len(activities)
    /\ matching_venues' = SortByDistance(grouped_venues)
    /\ pc' = "render"
    /\ UNCHANGED <<pipeline, station_file, metro_stations, args, desired_start,
                   desired_end, response, posts, payload_date, activities, idx,
                   grouped_venues, result, query, storage>>

\* What is shown: the bot's message lists matching_venues[:10], the table of
\* find_games (and its relay) lists matching_venues
Shown(slots) == IF pipeline = "bot" THEN Top(slots, MaxDisplay) ELSE slots

Render ==
    /\ pc = "render"
    /\ IF matching_venues = <<>>
       THEN Finish("no_courts", <<>>)
       ELSE Finish("results", Shown(matching_venues))
    /\ UNCHANGED <<pipeline, station_file, metro_stations, args, desired_start,
                   desired_end, response, posts, payload_date, activities, idx,
                   grouped_venues, matching_venues, query, storage>>

Next == LoadStations \/ ParseArgs \/ Post \/ ScanStep \/ Rank \/ Render

Spec == Init /\ [][Next]_vars
\* ------------------------------------------- find_nearest_metro on its own
\* Stations named 1 and 2, each at latitude 11 or 13
StationChoices == {Station(n, lat) : n \in 1..2, lat \in {11, 13}}

InitNearest ==
    /\ Fresh
    /\ StorageIdle
    /\ pipeline = "bot"
    /\ station_file = "ok"
    /\ args = GoodArgs
    /\ response = Json("absent", 1, <<>>)
    /\ query \in {[stations |-> st, lat |-> lat, called |-> FALSE, answer |-> <<Null, 0>>] :
                     st \in ListsUpTo(StationChoices, MaxStations), lat \in 11..13}

\* nearest_metro, dist_to_metro = find_nearest_metro(venue_lat, venue_lng)
NearestCall ==
    /\ ~query.called
    /\ query' = [query EXCEPT !.called = TRUE,
                               !.answer = find_nearest_metro(query.lat, 77, query.stations)]
    /\ UNCHANGED <<pipeline, station_file, metro_stations, args, desired_start,
                   desired_end, response, posts, payload_date, activities, idx,
                   grouped_venues, matching_venues, result, pc, storage>>

NextNearest == NearestCall

SpecNearest == InitNearest /\ [][NextNearest]_vars

\* -------------------------------------------------- save_user_location
InitSave ==
    /\ Fresh
    /\ pipeline = "bot"
    /\ station_file = "ok"
    /\ args = GoodArgs
    /\ response = Json("absent", 1, <<>>)
    /\ query = NoQuery
    /\ StorageIdle

search == <<pipeline, station_file, metro_stations, args, desired_start, desired_end,
            response, posts, payload_date, activities, idx, grouped_venues,
            matching_venues, result, pc, query>>

\* telegram_webhook receives a location message and calls
\* save_user_location(chat_id, lat, lng); no other call for that chat is in flight
BeginSave(c) ==
    /\ saves[c].pc = "idle"
    /\ started < MaxSaves
    /\ \E chat_id \in ChatIds, location \in Locations :
          /\ \A d \in Callers : saves[d].pc # "idle" => saves[d].chat_id # chat_id
          /\ saves' = [saves EXCEPT ![c] = [pc |-> "read", chat_id |-> chat_id,
                                             location |-> location,
                                             locations |-> EmptyDict]]
    /\ started' = started + 1
    /\ UNCHANGED <<blob, last_saved, search>>

\* locations = get_user_locations(): the stored dict, or {} when the listing, the
\* download or the JSON decoding fails (every exception is caught)
get_user_locations(stored, failed) == IF failed THEN EmptyDict ELSE stored

ReadLocations(c) ==
    /\ saves[c].pc = "read"
    /\ \E failed \in BOOLEAN :
          saves' = [saves EXCEPT ![c].pc = "write",
                                 ![c].locations = get_user_locations(blob, failed)]
    /\ UNCHANGED <<blob, last_saved, started, search>>

\* locations[str(chat_id)] = {"lat": lat, "lng": lng} and
\* vercel_blob.put(BLOB_FILENAME, json.dumps(locations)), which either replaces
\* the stored dict by the whole of locations or fails with an exception that is
\* logged
PutLocations(c) ==
    /\ saves[c].pc = "write"
    /\ LET locations == [saves[c].locations EXCEPT
                            ![KeyOf(saves[c].chat_id)] = saves[c].location]
       IN  \E failed \in BOOLEAN :
             IF failed
             THEN UNCHANGED <<blob, last_saved>>
             ELSE /\ blob' = locations
                  /\ last_saved' = [last_saved EXCEPT
                                       ![KeyOf(saves[c].chat_id)] = saves[c].location]
    /\ saves' = [saves EXCEPT ![c] = IdleSave]
    /\ UNCHANGED <<started, search>>

NextSave == \E c \in Callers : BeginSave(c) \/ ReadLocations(c) \/ PutLocations(c)

SpecSave == InitSave /\ [][NextSave]_vars

\* ================================================================= claims
\* The scan has reached activities[idx]
AtRecord == pc = "scan" /\ idx <= Len(activities)

\* The search ran to its end and rendered the sorted slots
Rendered == pc = "done" /\ result.kind = "results"

\* The scan came to its end and the groups were sorted
Ranked == pc = "render" \/ (pc = "done" /\ result.kind \in {"results", "no_courts"})

\* A record that is full or of another type: joineeCount > 1 or type # 0
FullOrOtherType(a) ==
    /\ a.isdict
    /\ \/ a.joineeCount[1] = "num" /\ a.joineeCount[2] > 1
       \/ Get(a, "type") # Num(0)

\* A well-formed record with joineeCount 0 and type 0 that starts in the window
OpenInWindow(a) ==
    /\ a \in GoodRecords
    /\ a.joineeCount = Num(0)
    /\ a.startTime[2] \in {T1, T1s, T2}

TotalCourts(groups) ==
    LET RECURSIVE Sum(_)
        Sum(k) == IF k = 0 THEN 0 ELSE groups[k].court_count + Sum(k - 1)
    IN  Sum(Len(groups))

\* C1 (as stated): in both pipelines a record with joineeCount > 1 or type # 0
\* adds to no venue group and no court count, and the same record with
\* joineeCount 0 and type 0 starting in the window is counted.
C1_FullRecordsNeverCounted ==
    [][AtRecord =>
         /\ FullOrOtherType(activities[idx]) => grouped_venues' = grouped_venues
         /\ OpenInWindow(activities[idx]) =>
                TotalCourts(grouped_venues') = TotalCourts(grouped_venues) + 1]_vars

\* venue_id of find_courts_logic: "venueId", else the misspelt "venueId d"
BotVenueId(a) ==
    IF Truthy(Get(a, "venueId")) THEN Get(a, "venueId") ELSE Get(a, "venueIdAlt")

\* The record passes the filters of find_courts_logic: a complete object with
\* numeric non-zero coordinates, type 0, at most one joinee, a start inside the
\* window, a venue id and a venue name
PassesBotFilters(a) ==
    /\ a.isdict
    /\ a.lat[1] = "num" /\ a.lat[2] # 0
    /\ a.lng[1] = "num" /\ a.lng[2] # 0
    /\ a.type = Num(0)
    /\ a.joineeCount = Missing \/ (a.joineeCount[1] = "num" /\ a.joineeCount[2] <= 1)
    /\ a.startTime[1] = "iso"
    /\ desired_start <= TimeOfDay(AsLocal(a.startTime[2]))
    /\ TimeOfDay(AsLocal(a.startTime[2])) <= desired_end
    /\ Truthy(BotVenueId(a))
    /\ a.venueName # Missing

\* Venue id and local start time at minute granularity
BotKeyOf(a) == <<BotVenueId(a), StrfHM(AsLocal(a.startTime[2]))>>

PassingWithKey(key) ==
    {i \in 1..Len(activities) :
        PassesBotFilters(activities[i]) /\ BotKeyOf(activities[i]) = key}

\* C2 (as stated): in find_courts_logic the records that pass the filters and
\* share venueId and minute-granularity local start time make exactly one slot,
\* whose court_count is their number; records differing in either are never
\* merged, so there are as many slots as distinct keys.
C2_OneSlotPerVenueMinute ==
    (pipeline = "bot" /\ Ranked) =>
        /\ \A i \in 1..Len(activities) :
              PassesBotFilters(activities[i]) =>
                /\ Cardinality({k \in 1..Len(grouped_venues) :
                                  grouped_venues[k].key = BotKeyOf(activities[i])}) = 1
                /\ \A k \in 1..Len(grouped_venues) :
                      grouped_venues[k].key = BotKeyOf(activities[i]) =>
                        grouped_venues[k].court_count =
                            Cardinality(PassingWithKey(BotKeyOf(activities[i])))
        /\ \A k \in 1..Len(grouped_venues) : PassingWithKey(grouped_venues[k].key) # {}

\* C3: in both pipelines the rendered slots are in ascending order of
\* distance_to_metro, and slots of equal distance are in the order in which
\* their groups were first created during the scan of the raw list.
C3_SortedStable ==
    Ranked =>
        /\ \A p, q \in 1..Len(matching_venues) :
              p < q =>
                /\ matching_venues[p].distance_to_metro <= matching_venues[q].distance_to_metro
                /\ matching_venues[p].distance_to_metro = matching_venues[q].distance_to_metro
                      => matching_venues[p].first < matching_venues[q].first
        /\ Len(matching_venues) = Len(grouped_venues)
        /\ \A p \in 1..Len(matching_venues) :
              \E k \in 1..Len(grouped_venues) : grouped_venues[k] = matching_venues[p]
        /\ \A k, l \in 1..Len(grouped_venues) :
              k < l => grouped_venues[k].first < grouped_venues[l].first
        /\ \A k \in 1..Len(grouped_venues) :
              /\ grouped_venues[k].first \in 1..Len(activities)
              /\ activities[grouped_venues[k].first].venueId \in
                    {grouped_venues[k].venue_id, Missing}
        /\ Rendered =>
              /\ Len(result.slots) <= Len(matching_venues)
              /\ result.slots = SubSeq(matching_venues, 1, Len(result.slots))

\* C3 witness: a rendered result in which sorting moved a slot and two slots tie
C3_Witness ==
    /\ Rendered
    /\ matching_venues # grouped_venues
    /\ \E p, q \in 1..Len(result.slots) :
          /\ p < q
          /\ result.slots[p].distance_to_metro = result.slots[q].distance_to_metro

\* C4 (as stated): whatever is rendered holds at most 10 slots, the 10 nearest
\* a station when there are more groups.
C4_AtMostTenShown ==
    Rendered =>
        /\ Len(result.slots) <= MaxDisplay
        /\ Len(grouped_venues) > MaxDisplay => Len(result.slots) = MaxDisplay
        /\ \A p \in 1..Len(result.slots) : \A q \in 1..Len(matching_venues) :
              q > Len(result.slots) =>
                result.slots[p].distance_to_metro <= matching_venues[q].distance_to_metro

\* C5 (as stated): in find_courts_logic, when the listing request succeeds and
\* no raw activity passes the filters, the result is the "No courts found"
\* sentinel naming the requested date, start and end.
C5_NoCourtsSentinel ==
    (/\ pipeline = "bot"
     /\ pc = "done"
     /\ posts = 1
     /\ response.kind = "json"
     /\ response.requestStatus = 1
     /\ \A i \in 1..Len(response.list) : ~PassesBotFilters(response.list[i]))
    => /\ result.kind = "no_courts"
       /\ result.slots = <<>>
       /\ result.date = args.date
       /\ result.start = args.start
       /\ result.end = args.end

DistanceTo(q, i) ==
    calculate_haversine_distance(q.lat, 77, q.stations[i].lat, q.stations[i].lng)

\* C6: find_nearest_metro gives (None, inf) for an empty station list; otherwise
\* the name and distance of a station at minimal distance, the first such
\* station of the list.
C6_NearestIsFirstMinimum ==
    query.called =>
        IF query.stations = <<>>
        THEN query.answer = <<Null, Inf>>
        ELSE \E i \in 1..Len(query.stations) :
               /\ query.answer = <<Str(query.stations[i].name), DistanceTo(query, i)>>
               /\ \A j \in 1..Len(query.stations) :
                     /\ DistanceTo(query, i) <= DistanceTo(query, j)
                     /\ j < i => DistanceTo(query, i) < DistanceTo(query, j)

\* C6 witness: two stations of different names tie for the minimum, the first wins
C6_Witness ==
    /\ query.called
    /\ \E i, j \in 1..Len(query.stations) :
          /\ i < j
          /\ query.stations[i].name # query.stations[j].name
          /\ DistanceTo(query, i) = DistanceTo(query, j)
          /\ \A k \in 1..Len(query.stations) : DistanceTo(query, i) <= DistanceTo(query, k)
          /\ \A k \in 1..(i - 1) : DistanceTo(query, i) < DistanceTo(query, k)
          /\ query.answer[1] = Str(query.stations[i].name)

\* C7: in find_courts_logic a network failure, a non-success status or a body that
\* is not JSON ends the search with the one error message, no venue results
\* and no exception, after exactly one POST; no search posts twice.
C7_TransportFailureMessage ==
    pipeline = "bot" =>
        /\ posts <= 1
        /\ (pc = "done" /\ response.kind \in FailureKinds /\ result.kind # "invalid_format")
              => /\ posts = 1
                 /\ result.kind = "api_error"
                 /\ result.slots = <<>>
                 /\ grouped_venues = <<>>
                 /\ matching_venues = <<>>

\* C7 witness: the body was not JSON and the search ended with the error message
C7_Witness ==
    /\ pipeline = "bot"
    /\ pc = "done"
    /\ response.kind = "notjson"
    /\ posts = 1
    /\ result.kind = "api_error"

\* C8 (as stated): a successful JSON answer yields its activity list whether the
\* list is data or data.activities, and zero activities when neither is a
\* list; the search goes on to the scan in every case.
C8_BothShapesProbed ==
    [][(pc = "request" /\ response.kind = "json" /\ response.requestStatus = 1) =>
         /\ pc' = "scan"
         /\ activities' = IF response.shape \in {"top", "nested"}
                           THEN response.list ELSE <<>>]_vars

\* A record with a missing key or a null or wrongly typed field among those the
\* claim names, or an entry that is no object
Malformed(a) ==
    \/ ~a.isdict
    \/ a.joineeCount[1] \in {"str", "null"}
    \/ a.lat[1] \in {"missing", "null", "str"}
    \/ a.startTime[1] # "iso"
    \/ a.venueName = Missing

\* C9 (as stated): a malformed record is skipped alone: the scan goes on to the
\* next record and the venue slots are those of the list without the record.
C9_MalformedSkippedAlone ==
    [][(AtRecord /\ Malformed(activities[idx])) =>
         /\ pc' = "scan"
         /\ idx' = idx + 1
         /\ grouped_venues' = grouped_venues]_vars

\* The groups find_courts_logic builds from list[i..] given the stations
RECURSIVE BotScan(_, _, _, _)
BotScan(groups, list, i, stations) ==
    IF i > Len(list) THEN groups
    ELSE BotScan(BotStep(groups, list[i], i, stations, desired_start, desired_end).groups,
                 list, i + 1, stations)

\* What a slot is apart from its nearest station
Grouping(slots) ==
    [k \in 1..Len(slots) |->
        [key |-> slots[k].key, venue_name |-> slots[k].venue_name,
         court_count |-> slots[k].court_count]]

NoStations == station_file \in {"missing", "corrupt"}

\* C10 (as stated): with the station file missing or unparsable the search is not
\* aborted: the request is issued (the date and times being valid) and every
\* slot has no station and distance inf.
C10_SearchGoesOnWithoutStations ==
    (NoStations /\ pc = "done" /\ ~ArgsInvalid) =>
        /\ posts = 1
        /\ result.kind # "stations_error"
        /\ \A k \in 1..Len(grouped_venues) :
              /\ grouped_venues[k].nearest_metro = Null
              /\ grouped_venues[k].distance_to_metro = Inf

\* C10 (amended): with the station file missing or unparsable (and a valid date
\* and times) find_courts_logic is
\* not aborted: it issues the request, groups the activities as it does with
\* the stations loaded, and every slot has no station and distance inf;
\* find_games prints a diagnostic and stops before any request.
C10_BotGoesOnCliStops ==
    (NoStations /\ pc = "done" /\ ~ArgsInvalid) =>
        IF pipeline = "bot"
        THEN /\ posts = 1
             /\ result.kind # "stations_error"
             /\ \A k \in 1..Len(grouped_venues) :
                   /\ grouped_venues[k].nearest_metro = Null
                   /\ grouped_venues[k].distance_to_metro = Inf
             /\ \A k \in 1..Len(result.slots) :
                   /\ result.slots[k].nearest_metro = Null
                   /\ result.slots[k].distance_to_metro = Inf
             /\ Ranked =>
                   Grouping(grouped_venues) = Grouping(BotScan(<<>>, activities, 1, StationFile))
        ELSE /\ posts = 0
             /\ result.kind = "stations_error"
             /\ grouped_venues = <<>>

\* C10 witness: the bot, without stations, rendered two slots of distance inf
C10_Witness ==
    /\ pipeline = "bot"
    /\ NoStations
    /\ Rendered
    /\ Len(result.slots) = 2
    /\ result.slots[1].distance_to_metro = Inf
    /\ result.slots[1].nearest_metro = Null

\* The record passes every filter of find_courts_logic but the window test
PassesOtherFilters(a) ==
    /\ a.isdict
    /\ a.lat[1] = "num" /\ a.lat[2] # 0
    /\ a.lng[1] = "num" /\ a.lng[2] # 0
    /\ a.type = Num(0)
    /\ a.joineeCount = Missing \/ (a.joineeCount[1] = "num" /\ a.joineeCount[2] <= 1)
    /\ a.startTime[1] = "iso"
    /\ Truthy(BotVenueId(a))
    /\ a.venueName # Missing

\* Local time of day of the record's start, to the second
LocalStart(a) == (a.startTime[2] + TzOffset) % Day

\* The window as the arguments spell it
WindowStart == args.start[2] * 3600 + args.start[3] * 60
WindowEnd == args.end[2] * 3600 + args.end[3] * 60

\* C11: in find_courts_logic a record that passes the other filters is counted
\* if and only if desiredStart <= t <= desiredEnd for the local time of day t of
\* its start, both bounds included; when desiredStart is later than desiredEnd
\* no record is counted.
C11_WindowInclusive ==
    [][(AtRecord /\ pipeline = "bot" /\ PassesOtherFilters(activities[idx])) =>
         /\ (WindowStart <= LocalStart(activities[idx])
                /\ LocalStart(activities[idx]) <= WindowEnd)
              => /\ TotalCourts(grouped_venues') = TotalCourts(grouped_venues) + 1
                 /\ \E k \in 1..Len(grouped_venues') :
                       grouped_venues'[k].key = BotKeyOf(activities[idx])
         /\ ~(WindowStart <= LocalStart(activities[idx])
                /\ LocalStart(activities[idx]) <= WindowEnd)
              => grouped_venues' = grouped_venues
         /\ WindowStart > WindowEnd => grouped_venues' = <<>>]_vars

\* C11 witness: a record starting exactly at desiredEnd made a slot and one
\* starting thirty seconds later did not
C11_Witness ==
    /\ pipeline = "bot"
    /\ Ranked
    /\ WindowStart < WindowEnd
    /\ \E i, j \in 1..Len(activities) :
          /\ PassesOtherFilters(activities[i])
          /\ LocalStart(activities[i]) = WindowEnd
          /\ PassesOtherFilters(activities[j])
          /\ LocalStart(activities[j]) > WindowEnd
          /\ Len(grouped_venues) = 1
          /\ grouped_venues[1].first = i
          /\ grouped_venues[1].court_count = 1

\* The date (which only find_courts_logic takes) or a time of the arguments does
\* not have the form YYYY-MM-DD or HH:MM
Unparsable ==
    \/ pipeline = "bot" /\ args.date[1] # "date"
    \/ args.start[1] # "time"
    \/ args.end[1] # "time"

\* C12 (as stated): when the date or a time does not parse, no request to the
\* listing API is ever issued and the search ends with the invalid-format
\* message, in find_courts_logic and in find_games, never with an exception.
C12_InvalidFormatStopsSearch ==
    Unparsable =>
        /\ posts = 0
        /\ pc = "done" => result.kind = "invalid_format"

\* The instant the date token stands for: the start of the window on the search
\* date in find_courts_logic, the current time in find_games
TokenInstant ==
    IF pipeline = "bot"
    THEN args.date[2] * Day + WindowStart - TzOffset
    ELSE NowUtc

\* C13 (as stated): the date token sent in the listing request carries the UTC
\* date and clock of its instant (local time minus the zone's offset) before
\* the letter Z, never the local wall clock.
C13_DateTokenIsUtc ==
    posts = 1 =>
        payload_date = <<TokenInstant \div Day, TokenInstant % Day, "Z">>

\* What telegram_webhook returns for an update that led to this search outcome:
\* except Exception around the whole handler, then return 'ok'
WebhookReturns(outcome) == IF outcome.kind = "exception" THEN "ok" ELSE "ok"

\* C14 (as stated): no entry point ends with an uncaught exception: find_games
\* prints a diagnostic and returns for every option value, an unknown timezone
\* name included, and every API response; telegram_webhook returns 'ok'.
C14_NoUncaughtException ==
    pc = "done" =>
        IF pipeline = "cli"
        THEN result.kind # "exception"
        ELSE WebhookReturns(result) = "ok"

\* The grouping key the pipeline gives a record: venue id and local start minute
\* in find_courts_logic, venue id and the start and end texts in find_games
RecordKey(a) ==
    IF pipeline = "bot" THEN BotKeyOf(a)
    ELSE <<Get(a, "venueId"), Get(a, "startTime"), Get(a, "endTime")>>

\* The record matches the search: it passes the filters of find_courts_logic, or
\* in find_games has both times and starts today at or after the window's start
\* and at a time of day not after its end
Matches(a) ==
    IF pipeline = "bot" THEN PassesBotFilters(a)
    ELSE /\ a.isdict
         /\ a.startTime[1] = "iso"
         /\ a.endTime[1] = "iso"
         /\ a.startTime[2] + TzOffset >= ((NowUtc + TzOffset) \div Day) * Day + WindowStart
         /\ LocalStart(a) <= WindowEnd

\* C15: during the scan every slot of the grouping map has court_count >= 1 and
\* no slot is removed; a record whose key is already in the map changes only
\* that slot's court_count, by exactly +1 when the record matches, its other
\* fields staying as the first record of the key set them and all other slots
\* unchanged; a record of a new key adds one slot of count 1 behind the others.
C15_ScanFrame ==
    [][/\ grouped_venues' # grouped_venues => AtRecord
       /\ Len(grouped_venues') >= Len(grouped_venues)
       /\ \A k \in 1..Len(grouped_venues') : grouped_venues'[k].court_count >= 1
       /\ \A k \in 1..Len(grouped_venues) :
             grouped_venues'[k] # grouped_venues[k] =>
               /\ grouped_venues' =
                     [grouped_venues EXCEPT
                         ![k].court_count = grouped_venues[k].court_count + 1]
               /\ grouped_venues[k].key = RecordKey(activities[idx])
       /\ Len(grouped_venues') > Len(grouped_venues) =>
               /\ Len(grouped_venues') = Len(grouped_venues) + 1
               /\ SubSeq(grouped_venues', 1, Len(grouped_venues)) = grouped_venues
               /\ grouped_venues'[Len(grouped_venues')].court_count = 1
               /\ grouped_venues'[Len(grouped_venues')].key = RecordKey(activities[idx])
               /\ \A k \in 1..Len(grouped_venues) :
                     grouped_venues[k].key # RecordKey(activities[idx])
       /\ (/\ AtRecord
           /\ Matches(activities[idx])
           /\ \E k \in 1..Len(grouped_venues) :
                 grouped_venues[k].key = RecordKey(activities[idx]))
          => \E k \in 1..Len(grouped_venues) :
                /\ grouped_venues[k].key = RecordKey(activities[idx])
                /\ grouped_venues'[k].court_count = grouped_venues[k].court_count + 1
      ]_vars

\* C15 witness: with two slots in the map, a second record of the first slot's
\* key, carrying another venue name, has been counted in it
C15_Witness ==
    /\ pc = "scan"
    /\ Len(grouped_venues) = 2
    /\ grouped_venues[1].court_count = 2
    /\ grouped_venues[2].court_count = 1
    /\ \E i \in 1..(idx - 1) :
          /\ i > grouped_venues[2].first
          /\ RecordKey(activities[i]) = grouped_venues[1].key
          /\ activities[i].venueName # grouped_venues[1].venue_name

\* No call of save_user_location is in flight
Quiescent == \A c \in Callers : saves[c].pc = "idle"

\* C16 (as stated): after any interleaving of concurrent save_user_location
\* calls for distinct chat ids, and also when the blob read inside a save
\* fails, the stored location of every chat id is the last one saved for it: a
\* save for one chat id never changes or removes the entry of another.
C16_SavesKeepOtherChats ==
    Quiescent => \A id \in ChatIds : blob[KeyOf(id)] = last_saved[KeyOf(id)]

====
